---- MODULE Spec2Model ----
(***************************************************************************)
(* flowerpot: FlowerPot<T, N>, a fixed-capacity stack over an array of     *)
(* MaybeUninit<T> slots and a cursor `pos` (src/src/lib.rs).               *)
(*                                                                         *)
(* A value of type T is modelled as an object [id, val]: `id` is the       *)
(* identity of the value (what a destructor run is counted against), `val` *)
(* its payload (what == compares for an i32).  A slot holds an object or   *)
(* Uninit.  A slot that was popped keeps its bits: assume_init_read copies *)
(* the value out and leaves the memory as it is.                           *)
(***************************************************************************)
EXTENDS Integers, Sequences, FiniteSets, TLC

\* ---- bounds of the model ------------------------------------------------
\* largest capacity N a store is instantiated with
MaxN == 2
\* payloads are 1..MaxVal
MaxVal == 2
\* number of distinct values the caller ever constructs
MaxObj == 3
\* longest recorded run of the shape push* pop*
MaxHist == 5

VARIABLES
    N,          \* the const generic N of this instantiation
    items,      \* items: [MaybeUninit<T>; N], indexed 0..N-1
    pos,        \* pos: usize
    alive,      \* FALSE once Drop::drop has run on the store
    held,       \* values the caller owns after a pop handed them out
    nextId,     \* identity of the next value the caller constructs
    dropCount,  \* dropCount[id]: destructor runs on value id so far
    op,         \* the last call made on the store
    arg,        \* its argument (an item, an index, or 0)
    ret,        \* its result, [tag, val]
    reads,      \* the slot indices that call read as a T
    shape,      \* "pushes" | "pops" | "other": shape of the run of push/pop calls
    hist,       \* the push/pop calls so far, while shape # "other"
    before,     \* pos, len() and get_init_slice() as the last call found them
    stack       \* the abstract bounded stack the same calls were made on

vars ==
    <<N, items, pos, alive, held, nextId, dropCount, op, arg, ret, reads, shape, hist,
      before, stack>>

Uninit == [id |-> 0, val |-> 0]
Values == 1..MaxVal
Ids == 1..MaxObj
\* what reading memory that holds no live T can yield: any bit pattern
Junk == [id : {0}, val : Values]

Ok == [tag |-> "Ok", val |-> 0]
Err == [tag |-> "Err", val |-> 0]
None == [tag |-> "None", val |-> 0]
Some(x) == [tag |-> "Some", val |-> x]

\* ---- FlowerPot::new ------------------------------------------------------
new_filled(n) ==
    /\ N = n
    /\ items = [i \in 0..(n - 1) |-> Uninit]
    /\ pos = n

new(n) ==
    /\ N = n
    /\ items = [i \in 0..(n - 1) |-> Uninit]
    /\ pos = 0

\* ---- capacity queries ----------------------------------------------------
full_off_by_one == pos > N

full == pos >= N

empty_never == FALSE

empty == pos = 0

checked_sub(a, b) == IF a >= b THEN Some(a - b) ELSE None

len ==
    LET r == checked_sub(pos, 1)
    IN  IF r.tag = "None" THEN 0 ELSE r.val

\* ---- the live region as a slice ------------------------------------------
get_init_slice_whole == [i \in 1..N |-> items[i - 1]]

get_init_slice ==
    IF pos = 0 THEN << >> ELSE [i \in 1..pos |-> items[i - 1]]

get_init_slice_mut ==
    IF pos = 0 THEN << >> ELSE [i \in 1..pos |-> items[i - 1]]

\* reading slot `index` as a T: the value a live slot holds; anything when the
\* slot is not live or lies outside the array (the stale bits included)
ReadAsT(index) ==
    IF index \in DOMAIN items /\ items[index] # Uninit
        THEN IF index < pos THEN {items[index]} ELSE {items[index]} \cup Junk
        ELSE Junk

\* ---- the caller's values -------------------------------------------------
\* a value the caller can move into push: one it constructs now, or one a pop
\* gave it
Fresh == IF nextId <= MaxObj THEN [id : {nextId}, val : Values] ELSE {}

Movable == Fresh \cup held

Moved(item) ==
    /\ held' = held \ {item}
    /\ nextId' = IF item \in Fresh THEN nextId + 1 ELSE nextId

\* running the destructor of one value
Destruct(item) == [dropCount EXCEPT ![item.id] = @ + 1]

\* ---- the recorded run ----------------------------------------------------
Record(call, a, r) ==
    LET next == IF call = "push" THEN (IF shape = "pushes" THEN "pushes" ELSE "other")
                ELSE (IF shape = "other" THEN "other" ELSE "pops")
        keep == next # "other" /\ Len(hist) < MaxHist
    IN  /\ shape' = IF keep THEN next ELSE "other"
        /\ hist' = IF keep THEN Append(hist, [op |-> call, arg |-> a, ret |-> r])
                   ELSE << >>

\* what a caller sees of the store through len() and get_init_slice(), with pos
Observed == [pos |-> pos, len |-> len, slice |-> get_init_slice]

\* ---- the abstract bounded stack of capacity N ----------------------------
AbsPush(item) == IF Len(stack) < N THEN Append(stack, item) ELSE stack

AbsPushResult == IF Len(stack) < N THEN Ok ELSE Err

AbsPop == IF Len(stack) > 0 THEN SubSeq(stack, 1, Len(stack) - 1) ELSE stack

AbsPopResult == IF Len(stack) > 0 THEN Some(stack[Len(stack)]) ELSE None

Init ==
    /\ \E n \in 0..MaxN : new(n)
    /\ alive = TRUE
    /\ held = {}
    /\ nextId = 1
    /\ dropCount = [id \in Ids |-> 0]
    /\ op = "new"
    /\ arg = 0
    /\ ret = Ok
    /\ reads = {}
    /\ shape = "pushes"
    /\ hist = << >>
    /\ before = Observed
    /\ stack = << >>

\* ---- FlowerPot::push -----------------------------------------------------
\* the slot `self.items.as_mut_ptr().add(self.pos)` names
push_slot_after == pos + 1

push_slot == pos

push_write(item) == [items EXCEPT ![push_slot] = item]

\* the early return: `item`, a by-value parameter that is not part of the Err,
\* goes out of scope and its destructor runs
push_rejected_forgotten(item) == dropCount

push_rejected(item) == Destruct(item)

push(item) ==
    /\ alive
    /\ op' = "push"
    /\ arg' = item
    /\ reads' = {}
    /\ Moved(item)
    /\ IF full
        THEN \* `item` goes out of scope on the early return: it is dropped
             /\ ret' = Err
             /\ dropCount' = push_rejected(item)
             /\ UNCHANGED <<items, pos>>
        ELSE /\ items' = push_write(item)
             /\ pos' = pos + 1
             /\ ret' = Ok
             /\ UNCHANGED dropCount
    /\ Record("push", item, ret')
    /\ before' = Observed
    /\ stack' = AbsPush(item)
    /\ UNCHANGED <<N, alive>>

\* ---- FlowerPot::pop ------------------------------------------------------
\* the slot pop reads: `add(self.pos)` after `self.pos -= 1`
pop_slot_undecremented == pos

pop_slot == pos - 1

pop ==
    /\ alive
    /\ op' = "pop"
    /\ arg' = 0
    /\ IF empty
        THEN /\ ret' = None
             /\ reads' = {}
             /\ UNCHANGED <<pos, held>>
        ELSE /\ pos' = pos - 1
             /\ \E v \in ReadAsT(pop_slot) :
                    /\ ret' = Some(v)
                    /\ held' = held \cup {v}
             /\ reads' = {pop_slot}
    /\ Record("pop", 0, ret')
    /\ before' = Observed
    /\ stack' = AbsPop
    /\ UNCHANGED <<N, items, alive, nextId, dropCount>>

\* ---- FlowerPot::get / get_mut -------------------------------------------
\* the result of the bounds check and of looking through the reference
get_result(index, v) == IF index > pos THEN None ELSE Some(v)

get_reads(index) == IF index > pos THEN {} ELSE {index}

get(index) ==
    /\ alive
    /\ op' = "get"
    /\ arg' = index
    /\ \E v \in ReadAsT(index) : ret' = get_result(index, v)
    /\ reads' = get_reads(index)
    /\ before' = Observed
    /\ UNCHANGED <<N, items, pos, alive, held, nextId, dropCount, shape, hist, stack>>

get_mut(index) ==
    /\ alive
    /\ op' = "get_mut"
    /\ arg' = index
    /\ \E v \in ReadAsT(index) : ret' = get_result(index, v)
    /\ reads' = get_reads(index)
    /\ before' = Observed
    /\ UNCHANGED <<N, items, pos, alive, held, nextId, dropCount, shape, hist, stack>>

\* ---- calls of the queries and of the slice accessors ----------------------
Query(call, r, touched) ==
    /\ alive
    /\ op' = call
    /\ arg' = 0
    /\ ret' = r
    /\ reads' = touched
    /\ before' = Observed
    /\ UNCHANGED <<N, items, pos, alive, held, nextId, dropCount, shape, hist, stack>>

full_call == Query("full", [tag |-> "bool", val |-> full], {})

empty_call == Query("empty", [tag |-> "bool", val |-> empty], {})

len_call == Query("len", [tag |-> "usize", val |-> len], {})

get_init_slice_call ==
    Query("get_init_slice", [tag |-> "slice", val |-> get_init_slice], 0..(pos - 1))

get_init_slice_mut_call ==
    Query("get_init_slice_mut", [tag |-> "slice", val |-> get_init_slice_mut], 0..(pos - 1))

\* ---- Drop for FlowerPot ---------------------------------------------------
\* the slots drop walks: items[0..pos] when pos != 0
drop_range_all == 0..(N - 1)

drop_range == IF pos # 0 THEN 0..(pos - 1) ELSE {}

drop ==
    /\ alive
    /\ alive' = FALSE
    /\ op' = "drop"
    /\ arg' = 0
    /\ ret' = Ok
    /\ reads' = drop_range
    /\ dropCount' =
        [id \in Ids |-> dropCount[id]
                         + Cardinality({i \in drop_range : i \in DOMAIN items /\ items[i].id = id})]
    /\ before' = Observed
    /\ UNCHANGED <<N, items, pos, held, nextId, shape, hist, stack>>

Indices == 0..(N + 1)

Next ==
    \/ \E item \in Movable : push(item)
    \/ pop
    \/ \E index \in Indices : get(index)
    \/ \E index \in Indices : get_mut(index)
    \/ full_call
    \/ empty_call
    \/ len_call
    \/ get_init_slice_call
    \/ get_init_slice_mut_call
    \/ drop

Spec == Init /\ [][Next]_vars

\* ---- writes through the mutable references --------------------------------
\* `*r = v` on a &mut T the store handed out: the payload of the slot r names
\* changes and nothing else does.  The borrow ends with the next call on the
\* store, so a write follows the accessor call that returned the reference.
\* The reference get_mut(N) returns on a full store names no slot of `items`
\* (it points one past the array); what a write through it hits is not part of
\* the store's storage and is not described here.
write_first(index, v) == [items EXCEPT ![0].val = v]

write(index, v) == [items EXCEPT ![index].val = v]

AbsWrite(index, v) ==
    IF index < Len(stack) THEN [stack EXCEPT ![index + 1].val = v] ELSE stack

Written(index, v) ==
    /\ alive
    /\ op' = "write"
    /\ arg' = index
    /\ ret' = [tag |-> "written", val |-> v]
    /\ reads' = {}
    /\ items' = write(index, v)
    /\ stack' = AbsWrite(index, v)
    /\ before' = Observed
    /\ shape' = "other"
    /\ hist' = << >>
    /\ UNCHANGED <<N, pos, alive, held, nextId, dropCount>>

write_get_mut(v) ==
    /\ op = "get_mut"
    /\ ret.tag = "Some"
    /\ arg \in DOMAIN items
    /\ Written(arg, v)

write_slice_mut(k, v) ==
    /\ op = "get_init_slice_mut"
    /\ k \in DOMAIN ret.val
    /\ Written(k - 1, v)

\* push, pop, the indexed and mutable accessors, and the writes; the caller pushes values it constructs
NextW ==
    \/ \E item \in Fresh : push(item)
    \/ pop
    \/ \E index \in Indices : get(index)
    \/ \E index \in Indices : get_mut(index)
    \/ get_init_slice_mut_call
    \/ \E v \in Values : write_get_mut(v)
    \/ \E k \in 1..MaxN + 1, v \in Values : write_slice_mut(k, v)

SpecW == Init /\ [][NextW]_vars

\* ==== properties ===========================================================
\* the successful pushes of the recorded run, in order
PushedOk == SelectSeq(hist, LAMBDA h : h.op = "push" /\ h.ret.tag = "Ok")

Pops == SelectSeq(hist, LAMBDA h : h.op = "pop")

\* C1: from new(), after k <= N pushes of v1..vk (and no pop) every push has
\* returned Ok and get_init_slice() is [v1, ..., vk] in insertion order.
C1_PushesInOrder ==
    (alive /\ shape = "pushes" /\ Len(hist) <= N) =>
        /\ \A k \in 1..Len(hist) : hist[k].ret.tag = "Ok"
        /\ get_init_slice = [k \in 1..Len(hist) |-> hist[k].arg]

C1_Filled ==
    /\ alive /\ shape = "pushes" /\ N = 2 /\ Len(hist) = N
    /\ op = "get_init_slice" /\ Len(ret.val) = 2

\* C2: len() returns the number of live elements, the cursor pos itself.
C2_LenIsPos == (op = "len") => (ret.val = pos)

\* C3: get(i) and get_mut(i) return Some if and only if i < pos.
C3_SomeIffBelowPos ==
    (op \in {"get", "get_mut"}) => ((ret.tag = "Some") <=> (arg < pos))

\* C4: every slot a checked operation reads as a T has an index below pos (so it
\* holds a live value) and lies inside the storage array.
C4_ReadsOnlyLive ==
    [][\A i \in reads' : i < pos /\ i < N]_vars

\* C5: push on a full store (pos == N) returns Err and leaves pos and
\* get_init_slice() as they were, every time it is repeated.
C5_FullPushRejected ==
    [][(op' = "push" /\ pos = N) =>
            (ret'.tag = "Err" /\ pos' = pos /\ get_init_slice' = get_init_slice)]_vars

C5_RejectedTwice ==
    /\ N > 0 /\ pos = N /\ shape = "pushes" /\ Len(hist) = N + 2
    /\ hist[N + 1].ret.tag = "Err" /\ hist[N + 2].ret.tag = "Err"

\* C6 as stated: after a push that failed on a full store the rejected value is
\* owned by the caller again and no destructor has run on it.
C6_RejectedReturned ==
    (op = "push" /\ ret.tag = "Err") => (arg \in held /\ dropCount[arg.id] = 0)

\* C6 as amended: after a push that failed on a full store the rejected value is
\* in no live slot and is not handed back to the caller; push has consumed it
\* and its destructor has run exactly once, so it is not leaked.
C6_RejectedDropped ==
    (op = "push" /\ ret.tag = "Err") =>
        /\ \A i \in 0..(pos - 1) : items[i].id # arg.id
        /\ arg \notin held
        /\ dropCount[arg.id] = 1

C6_Rejected == N > 0 /\ op = "push" /\ ret.tag = "Err" /\ pos = N

\* C7: on a store filled by k pushes, the j-th pop returns the (k-j+1)-th pushed
\* value and leaves k-j live elements; once all k are popped, pop returns None.
C7_PopsReverse ==
    (alive /\ shape # "other") =>
        LET K == Len(PushedOk)
            J == Len(Pops)
        IN  /\ \A j \in 1..J :
                IF j <= K
                    THEN Pops[j].ret.tag = "Some" /\ Pops[j].ret.val = PushedOk[K - j + 1].arg
                    ELSE Pops[j].ret.tag = "None"
            /\ pos = IF J <= K THEN K - J ELSE 0

C7_Drained ==
    /\ alive /\ shape = "pops" /\ Len(PushedOk) = 2 /\ Len(Pops) = 3
    /\ op = "pop" /\ ret.tag = "None"

\* C8: pop on an empty store (pos == 0) returns None and leaves pos and every
\* slot as it was; no pop takes pos below 0.
C8_EmptyPop ==
    [][(op' = "pop") =>
            /\ pos' >= 0
            /\ (pos = 0) => (ret'.tag = "None" /\ pos' = pos /\ items' = items)]_vars

C8_PoppedEmpty ==
    /\ op = "pop" /\ ret.tag = "None" /\ pos = 0 /\ N > 0 /\ shape = "other"
    /\ \E i \in DOMAIN items : items[i] # Uninit

\* C9: drop runs the destructor of the value in each slot of [0, pos) exactly
\* once, on k = pos distinct values, touches no slot of [pos, N), and runs no
\* other destructor; with pos == 0 it destructs nothing.
C9_DropLiveOnce ==
    [][(op' = "drop") =>
            LET live == {items[i].id : i \in 0..(pos - 1)}
            IN  /\ reads' = 0..(pos - 1)
                /\ Cardinality(live) = pos
                /\ \A id \in Ids :
                        dropCount'[id] = IF id \in live THEN 1 ELSE dropCount[id]]_vars

C9_DroppedAfterPops ==
    /\ ~alive /\ op = "drop" /\ pos = 1 /\ N = 2 /\ shape = "other"
    /\ held # {} /\ items[1] # Uninit

\* C10: 0 <= pos <= N in every reachable state.
C10_PosInRange == pos \in 0..N

C10_BothEnds ==
    /\ N > 0 /\ pos = 0 /\ op = "pop" /\ ret.tag = "None" /\ shape = "pops"
    /\ \E k \in 1..Len(hist) : hist[k].ret.tag = "Err"

\* C11: a successful push(v) immediately followed by pop() returns Some(v) and
\* leaves pos, len() and get_init_slice() as they were before the push.
C11_PushPopRoundTrip ==
    [][(op = "push" /\ ret.tag = "Ok" /\ op' = "pop") =>
            (ret'.tag = "Some" /\ ret'.val = arg /\ Observed' = before)]_vars

C11_RoundTripped ==
    /\ shape = "pops" /\ Len(hist) = 3 /\ hist[2].op = "push" /\ hist[3].op = "pop"
    /\ op = "pop" /\ ret.tag = "Some" /\ ret.val = hist[2].arg
    /\ pos = 1 /\ before.pos = 2

\* C12: for every N the store new() returns has pos == 0 and is empty(); it is
\* not full() when N > 0; when N == 0 it is empty and full, and every push fails.
C12_NewIsEmpty ==
    /\ (op = "new") => (pos = 0 /\ empty /\ (N > 0 => ~full) /\ (N = 0 => full))
    /\ (N = 0 /\ op = "push") => (ret.tag = "Err" /\ empty /\ full)

C12_ZeroCapacityPush ==
    /\ N = 0 /\ op = "push" /\ ret.tag = "Err" /\ pos = 0
    /\ shape = "pushes" /\ Len(hist) = 2

\* C13: over every interleaving of push and pop the store refines the abstract
\* bounded stack of capacity N: get_init_slice() is the abstract sequence (pos
\* elements) after every step, each push returns Ok exactly when the abstract
\* stack had fewer than N elements, and each pop returns the abstract top or None.
C13_RefinesBoundedStack ==
    /\ get_init_slice = stack /\ Len(stack) = pos
    /\ [][/\ get_init_slice' = stack' /\ Len(stack') = pos'
          /\ (op' = "push") => (ret'.tag = AbsPushResult.tag)
          /\ (op' = "pop") =>
                /\ ret'.tag = AbsPopResult.tag
                /\ (ret'.tag = "Some") => (ret'.val = AbsPopResult.val)]_vars

C13_Interleaved ==
    /\ alive /\ shape = "other" /\ N = 2 /\ pos = 1 /\ Len(stack) = 1
    /\ op = "pop" /\ ret.tag = "Some" /\ Cardinality(held) = 2

\* C14: a value pop returned is not destructed by pop or by a later drop, is not
\* returned again by a later pop and is not exposed by get, get_mut or the slice
\* accessors while the caller owns it; no value is destructed more than once.
C14_PoppedLeavesStore ==
    [][/\ \A o \in held' : o.id \in Ids => dropCount'[o.id] = 0
       /\ \A id \in Ids : dropCount'[id] <= 1
       /\ (op' = "pop" /\ ret'.tag = "Some") => (ret'.val \notin held)
       /\ (op' \in {"get", "get_mut"} /\ ret'.tag = "Some") => (ret'.val \notin held')
       /\ (op' \in {"get_init_slice", "get_init_slice_mut"}) =>
                (\A k \in DOMAIN ret'.val : ret'.val[k] \notin held')]_vars

\* C15: full(), empty(), len(), get, get_mut and the slice accessors never change
\* pos, leave every slot's content as it was, and inspect only slots of
\* [0, pos), which the store owns.
Accessors ==
    {"full", "empty", "len", "get", "get_mut", "get_init_slice", "get_init_slice_mut"}

C15_AccessorsFrame ==
    [][(op' \in Accessors) =>
            /\ pos' = pos
            /\ items' = items
            /\ \A i \in reads' : i \in 0..(pos - 1)]_vars

\* C17: full() is true exactly when pos == N and empty() exactly when pos == 0,
\* as computed and as the calls return them; for N > 0 they are never both true.
C17_FullEmptyExact ==
    /\ full <=> (pos = N)
    /\ empty <=> (pos = 0)
    /\ (op = "full") => (ret.val <=> (pos = N))
    /\ (op = "empty") => (ret.val <=> (pos = 0))
    /\ (N > 0) => ~(full /\ empty)

C17_ReportedFull ==
    /\ N = 2 /\ pos = N /\ op = "full" /\ ret.val = TRUE /\ shape = "other"

\* C16: for i < pos, get(i) and get_mut(i) return the value most recently placed
\* at index i, by the push that filled the slot or by a later write through
\* get_mut(i) or get_init_slice_mut(); such a write changes slot i alone, leaves
\* pos and every other slot as they were, and a later pop of the slot returns
\* the written value.
C16_GetSeesLastWrite ==
    /\ [][(op' \in {"get", "get_mut"} /\ arg' < pos) =>
            (ret'.tag = "Some" /\ ret'.val = stack[arg' + 1])]_vars
    /\ [][(op' = "write" /\ arg' < pos) =>
            /\ pos' = pos
            /\ items'[arg'] = [id |-> items[arg'].id, val |-> ret'.val]
            /\ \A j \in DOMAIN items \ {arg'} : items'[j] = items[j]]_vars
    /\ [][(op' = "pop" /\ pos > 0) =>
            (ret'.tag = "Some" /\ ret'.val = stack[Len(stack)])]_vars

C16_WroteLiveSlot ==
    /\ alive /\ op = "write" /\ arg = 0 /\ pos = 2
    /\ before.slice[1].val # items[0].val /\ before.slice[2] = items[1]

====
